---- MODULE Spec2Model ----
(***************************************************************************)
(* msfs-layout-generator: the layout generation engine (processLayout and  *)
(* its helpers) as a state machine over the package directory on disk.     *)
(*                                                                         *)
(* Paths are sequences of UTF-16 code units (all of them below 2^16, so a  *)
(* code unit is a code point).  File sizes are byte counts.  Windows file  *)
(* times exceed 32 bits, so they are kept as little-endian sequences of    *)
(* base-10000 limbs.                                                       *)
(***************************************************************************)
EXTENDS Integers, Sequences, FiniteSets, TLC

(***************************************************************************)
(* Bounds of the model.                                                    *)
(***************************************************************************)
\* at most this many package files are in the tree at the start
MaxFiles == 2
\* at most this many runs of the generator in one behaviour
MaxRuns == 2

(***************************************************************************)
(* Characters.                                                             *)
(***************************************************************************)
\* path.sep on the target platform (Windows): the backslash
Sep == 92
\* '/', the separator of relative paths in layout.json
Slash == 47
\* file.length > 259
MaxPathLength == 259
\* padStart(20, '0')
PadWidth == 20

\* String.prototype.toLowerCase on one code unit (ASCII and Latin-1 letters)
ToLowerChar(c) ==
    IF c >= 65 /\ c <= 90 THEN c + 32
    ELSE IF c >= 192 /\ c <= 222 /\ c # 215 THEN c + 32
    ELSE c

toLowerCase(s) == [i \in 1..Len(s) |-> ToLowerChar(s[i])]

\* s.startsWith(prefix)
startsWith(s, prefix) ==
    /\ Len(s) >= Len(prefix)
    /\ SubSeq(s, 1, Len(prefix)) = prefix

RECURSIVE LastSlashUpTo(_, _)
\* index of the last '/' among the first i characters of s, 0 when there is none
LastSlashUpTo(s, i) ==
    IF i = 0 THEN 0 ELSE IF s[i] = Slash THEN i ELSE LastSlashUpTo(s, i - 1)

LastSlash(s) == LastSlashUpTo(s, Len(s))

\* path.basename of a forward-slash relative path
basename(s) == SubSeq(s, LastSlash(s) + 1, Len(s))

\* file names and prefixes, as code units
Str_cvt == <<95, 99, 118, 116, 95, 47>>                              \* "_cvt_/"
Str_layout_json == <<108, 97, 121, 111, 117, 116, 46, 106, 115, 111, 110>>      \* "layout.json"
Str_manifest_json == <<109, 97, 110, 105, 102, 101, 115, 116, 46, 106, 115, 111, 110>> \* "manifest.json"
Str_thumbs_db == <<116, 104, 117, 109, 98, 115, 46, 100, 98>>        \* "thumbs.db"
Str_desktop_ini == <<100, 101, 115, 107, 116, 111, 112, 46, 105, 110, 105>>     \* "desktop.ini"

\* the fixed exclusion set of @/constants/constants (lower-cased file names):
\* the housekeeping files, and the two documents the generator itself writes
excludedFiles == {Str_thumbs_db, Str_desktop_ini, Str_layout_json, Str_manifest_json}

\* a plausible slip: only the _cvt_ folder is excluded
doExcludeFileCvtOnly(relativePath) == startsWith(toLowerCase(relativePath), Str_cvt)

doExcludeFile(relativePath) ==
    LET fileName == toLowerCase(basename(relativePath))
    IN  IF startsWith(toLowerCase(relativePath), Str_cvt)
        THEN TRUE
        ELSE fileName \in excludedFiles

(***************************************************************************)
(* Windows file times: naturals as little-endian base-10000 limbs.         *)
(***************************************************************************)
\* the factor from milliseconds to 100 ns ticks, and the base of the limbs
Limb == 10000

\* a natural below 10^12 as three limbs
ToBig(n) == <<n % Limb, (n \div Limb) % Limb, n \div (Limb * Limb)>>

RECURSIVE BigAdd(_, _, _)
BigAdd(a, b, carry) ==
    IF a = <<>> /\ b = <<>>
    THEN IF carry = 0 THEN <<>> ELSE <<carry>>
    ELSE LET x == IF a = <<>> THEN 0 ELSE Head(a)
             y == IF b = <<>> THEN 0 ELSE Head(b)
             t == x + y + carry
         IN  <<t % Limb>> \o BigAdd(IF a = <<>> THEN <<>> ELSE Tail(a),
                                    IF b = <<>> THEN <<>> ELSE Tail(b),
                                    t \div Limb)

RECURSIVE BigNorm(_)
\* without leading (most significant) zero limbs
BigNorm(a) ==
    IF a # <<>> /\ a[Len(a)] = 0 THEN BigNorm(SubSeq(a, 1, Len(a) - 1)) ELSE a

RECURSIVE Digits(_)
\* number of decimal digits of a natural
Digits(n) == IF n < 10 THEN 1 ELSE 1 + Digits(n \div 10)

BigDigits(a) ==
    LET b == BigNorm(a)
    IN  IF b = <<>> THEN 1 ELSE 4 * (Len(b) - 1) + Digits(b[Len(b)])

\* new Date('1970-01-01T00:00:00Z').getTime() - new Date('1601-01-01T00:00:00Z').getTime()
\* = 11644473600000 ms
EpochDistanceMs == <<0, 7360, 6444, 11>>

RECURSIVE BigMulSmall(_, _, _)
\* a times k, for k up to Limb
BigMulSmall(a, k, carry) ==
    IF a = <<>>
    THEN IF carry = 0 THEN <<>> ELSE <<carry>>
    ELSE <<(Head(a) * k + carry) % Limb>>
         \o BigMulSmall(Tail(a), k, (Head(a) * k + carry) \div Limb)

RECURSIVE BigLessNorm(_, _)
BigLessNorm(a, b) ==
    IF Len(a) # Len(b) THEN Len(a) < Len(b)
    ELSE IF a = <<>> THEN FALSE
    ELSE IF a[Len(a)] # b[Len(b)] THEN a[Len(a)] < b[Len(b)]
    ELSE BigLessNorm(SubSeq(a, 1, Len(a) - 1), SubSeq(b, 1, Len(b) - 1))

\* a < b
BigLess(a, b) == BigLessNorm(BigNorm(a), BigNorm(b))

RECURSIVE BigPred(_)
\* a - 1, for a above 0
BigPred(a) ==
    IF Head(a) > 0 THEN <<Head(a) - 1>> \o Tail(a)
    ELSE <<Limb - 1>> \o BigPred(Tail(a))

\* 2^53 = 9007199254740992: up to it a double holds every integer
Two53 == <<992, 5474, 1992, 9007>>

\* the product n * 10000 of two doubles, for an integer n with n * 625 below
\* 2^54: 10000 is 16 * 625, so the product is exact when n * 625 has a
\* 53-bit significand; from 2^53 to 2^54 the doubles are the multiples of 32,
\* the product is exact when n * 625 is even and is otherwise half way between
\* two doubles, rounded to the one whose significand is even
TimesTenThousand(n) ==
    LET m == BigNorm(BigMulSmall(n, 625, 0))
    IN  IF BigLess(m, Two53) \/ m[1] % 2 = 0 THEN <<0>> \o n
        ELSE IF m[1] % 4 = 1 THEN <<Limb - 16>> \o BigPred(n)
        ELSE <<16>> \o n

\* a plausible slip: the tick factor applied to the Unix time alone
getWindowsFileTimeUnixTicks(date) == BigNorm(<<0>> \o date)

\* (date.getTime() - millisecondsToWindowsEpoch) * 10000, floored, for the
\* date given by its getTime(): the distance is negative, so it is added; the
\* difference is exact, the product is a product of doubles, and the floor of
\* a double that large is the double
getWindowsFileTime(date) == BigNorm(TimesTenThousand(BigAdd(date, EpochDistanceMs, 0)))

(***************************************************************************)
(* String comparison.                                                      *)
(***************************************************************************)
RECURSIVE LexCompare(_, _)
\* lexicographic comparison of two sequences of numbers: -1, 0 or 1
LexCompare(a, b) ==
    IF a = <<>> THEN (IF b = <<>> THEN 0 ELSE -1)
    ELSE IF b = <<>> THEN 1
    ELSE IF Head(a) < Head(b) THEN -1
    ELSE IF Head(a) > Head(b) THEN 1
    ELSE LexCompare(Tail(a), Tail(b))

\* ordinal comparison: by code unit
OrdinalCompare(a, b) == LexCompare(a, b)

RECURSIVE NFD(_)
\* canonical decomposition: U+00E9 is e followed by U+0301 (combining acute)
NFD(s) ==
    IF s = <<>> THEN <<>>
    ELSE (IF Head(s) = 233 THEN <<101, 769>> ELSE <<Head(s)>>) \o NFD(Tail(s))

\* the punctuation of the root collation, in its order; it sorts before digits,
\* and digits before letters
CollationPunctuation == <<95, 45, 44, 59, 58, 33, 63, 46, 39, 34, 40, 41, 91, 93, 64, 42, 47, 92, 38, 35, 37>>

\* primary weight of a code point: 0 for a combining mark (ignorable at the
\* first level); letters compare without regard to case
PrimaryWeight(c) ==
    LET lc == ToLowerChar(c)
        at == {i \in 1..Len(CollationPunctuation) : CollationPunctuation[i] = c}
    IN  IF c = 769 THEN 0
        ELSE IF at # {} THEN CHOOSE i \in at : TRUE
        ELSE IF c >= 48 /\ c <= 57 THEN 100 + (c - 48)
        ELSE IF lc >= 97 /\ lc <= 122 THEN 200 + (lc - 97)
        ELSE 300 + c

\* secondary weight: accents
SecondaryWeight(c) == IF c = 769 THEN 2 ELSE 1

\* tertiary weight: upper case after lower case
TertiaryWeight(c) == IF ToLowerChar(c) # c THEN 2 ELSE 1

NonZero(w) == w # 0

PrimaryKey(s) == SelectSeq([i \in 1..Len(s) |-> PrimaryWeight(s[i])], NonZero)
SecondaryKey(s) == [i \in 1..Len(s) |-> SecondaryWeight(s[i])]
TertiaryKey(s) == [i \in 1..Len(s) |-> TertiaryWeight(s[i])]

\* a plausible variant: comparison by code unit
localeCompareOrdinal(a, b) == LexCompare(a, b)

\* String.prototype.localeCompare with the default collator: canonically
\* equivalent strings compare equal; base letters decide first, then accents,
\* then case
localeCompare(a, b) ==
    LET na == NFD(a)
        nb == NFD(b)
        p == LexCompare(PrimaryKey(na), PrimaryKey(nb))
        q == LexCompare(SecondaryKey(na), SecondaryKey(nb))
    IN  IF p # 0 THEN p
        ELSE IF q # 0 THEN q
        ELSE LexCompare(TertiaryKey(na), TertiaryKey(nb))

(***************************************************************************)
(* Serialisation.                                                          *)
(***************************************************************************)
\* bytes of one code point in UTF-8 (code points below 2^16)
Utf8Len(c) == IF c < 128 THEN 1 ELSE IF c < 2048 THEN 2 ELSE 3

RECURSIVE Utf8Bytes(_)
Utf8Bytes(s) == IF s = <<>> THEN 0 ELSE Utf8Len(Head(s)) + Utf8Bytes(Tail(s))

\* bytes of one entry of JSON.stringify(layout, null, 2):
\*     {                      6 bytes with the line feed
\*       "path": "<path>",    18 + path
\*       "size": <size>,      16 + digits
\*       "date": <date>       15 + digits
\*     }                      5
EntryBytes(c) == 60 + Utf8Bytes(c.path) + Digits(c.size) + BigDigits(c.date)

RECURSIVE EntriesBytes(_)
EntriesBytes(content) ==
    IF content = <<>> THEN 0 ELSE EntryBytes(Head(content)) + EntriesBytes(Tail(content))

\* bytes of JSON.stringify(layout, null, 2), which holds no \r\n to replace:
\* '{\n  "content": [' (16), the entries joined by ',\n' after a line feed,
\* '\n  ]\n}' (6); an empty array is written '[]'
LayoutBytes(content) ==
    IF content = <<>> THEN 19
    ELSE 16 + 1 + EntriesBytes(content) + 2 * (Len(content) - 1) + 6

(***************************************************************************)
(* The package directory.                                                  *)
(***************************************************************************)
\* the package directory, "C:\" followed by 242 letters: a root so deep that a
\* relative path of 14 characters or more passes the 259 limit
packageDir == <<67, 58, 92>> \o [i \in 1..242 |-> 120]

\* path.join(currentPath, item)
join(dir, item) == dir \o <<Sep>> \o item

\* path.relative(packageDir, file).split(path.sep).join('/')
relativeOf(file) ==
    LET rel == SubSeq(file, Len(packageDir) + 2, Len(file))
    IN  [i \in 1..Len(rel) |-> IF rel[i] = Sep THEN Slash ELSE rel[i]]

\* the package files a tree may hold: name below the root, bytes, mtime (ms)
File_a_txt == [name |-> <<97, 46, 116, 120, 116>>, size |-> 10, mtime |-> 0]
File_B_txt == [name |-> <<66, 46, 116, 120, 116>>, size |-> 20, mtime |-> 1000]
File_Thumbs_db == [name |-> <<84, 104, 117, 109, 98, 115, 46, 100, 98>>, size |-> 5, mtime |-> 86400000]
File_deep_longer_bin ==
    [name |-> <<100, 101, 101, 112, Sep, 108, 111, 110, 103, 101, 114, 46, 98, 105, 110>>,
     size |-> 40, mtime |-> 2000000000]
File_e_acute == [name |-> <<233>>, size |-> 1, mtime |-> 5]
File_e_combining == [name |-> <<101, 769>>, size |-> 2, mtime |-> 6]

PackageFiles ==
    {File_a_txt, File_B_txt, File_Thumbs_db, File_deep_longer_bin, File_e_acute, File_e_combining}

\* no layout.json, no manifest.json
NoLayout == [exists |-> FALSE, content |-> <<>>, mtime |-> 0]

\* the text of a manifest.json that JSON.parse rejects
MalformedText == "{ total_package_size"

\* manifest.json documents: whether the text parses, the members in order, and
\* how the text is laid out
Malformed == [parses |-> FALSE, fmt |-> "compact", members |-> <<>>]
ManifestPlain == [parses |-> TRUE, fmt |-> "compact", members |-> <<<<"title", "pkg">>>>]
ManifestSized ==
    [parses |-> TRUE, fmt |-> "compact",
     members |-> <<<<"total_package_size", "0">>, <<"title", "pkg">>>>]

NoManifest == [exists |-> FALSE, doc |-> Malformed, mtime |-> 0]

RECURSIVE MembersBytes(_, _)
\* bytes of the members, each with `extra` bytes of quotes, colon and indentation
MembersBytes(members, extra) ==
    IF members = <<>> THEN 0
    ELSE Len(Head(members)[1]) + Len(Head(members)[2]) + extra
         + MembersBytes(Tail(members), extra)

\* bytes of manifest.json: '{"k":"v","k":"v"}' when compact;
\* JSON.stringify(manifest, null, 2) when written by the updater
ManifestBytes(doc) ==
    IF ~doc.parses THEN Len(MalformedText)
    ELSE IF doc.members = <<>> THEN 2
    ELSE IF doc.fmt = "compact"
         THEN 2 + MembersBytes(doc.members, 5) + (Len(doc.members) - 1)
         ELSE 2 + MembersBytes(doc.members, 8) + 2 * (Len(doc.members) - 1) + 2

VARIABLES
    rootExists,   \* whether the package directory exists
    files,        \* the package files in the tree, in the order the walk lists them
    layout,       \* layout.json: [exists, content, mtime]
    manifest,     \* manifest.json: [exists, doc, mtime]
    call,         \* the last call: entry point and options
    result,       \* how the last call ended
    clock,        \* runs made so far; the time of a write
    session,      \* the watch session: "off", "watching", "closing", "exited"
    timers,       \* the pending timers, oldest first: the ms each has left
    handleLive,   \* debounceTimer is the newest of the pending timers
    isProcessing, \* the busy flag of the watcher
    inFlight,     \* regenerations started and not yet completed
    changeCount,  \* regenerations started in the session
    eventCount,   \* qualifying events delivered in the session
    unserved,     \* qualifying events since the last regeneration started
    quiet,        \* ms since the last qualifying event, up to the window
    probe         \* a call of a helper on its own: the argument and the value

runVars == <<rootExists, files, layout, manifest, call, result, clock, probe>>
watchVars == <<session, timers, handleLive, isProcessing, inFlight, changeCount,
               eventCount, unserved, quiet>>
vars == <<rootExists, files, layout, manifest, call, result, clock, session, timers,
          handleLive, isProcessing, inFlight, changeCount, eventCount, unserved, quiet,
          probe>>

(***************************************************************************)
(* doUpdateManifest.                                                       *)
(***************************************************************************)
RECURSIVE Repeat(_, _)
\* String.prototype.repeat
Repeat(str, n) == IF n = 0 THEN "" ELSE str \o Repeat(str, n - 1)

\* the runs of zeros a pad may need
ZeroFill == [n \in 0..PadWidth |-> Repeat("0", n)]

\* str.padStart(PadWidth, '0')
padStart(str) == IF Len(str) >= PadWidth THEN str ELSE ZeroFill[PadWidth - Len(str)] \o str

\* manifest.total_package_size !== undefined, of the parsed document
HasTotalPackageSize(doc) ==
    \E i \in 1..Len(doc.members) : doc.members[i][1] = "total_package_size"

\* a plausible slip: the key is assigned whether or not the document has it
doUpdateManifestAddsKey(m, totalPackageSize, now, writeFails) ==
    IF ~m.doc.parses \/ writeFails THEN [threw |-> TRUE, manifest |-> m]
    ELSE LET value == padStart(ToString(totalPackageSize))
             kept == [i \in 1..Len(m.doc.members) |->
                        IF m.doc.members[i][1] = "total_package_size"
                        THEN <<"total_package_size", value>>
                        ELSE m.doc.members[i]]
         IN  [threw |-> FALSE,
              manifest |-> [exists |-> TRUE,
                            doc |-> [parses |-> TRUE, fmt |-> "pretty",
                                     members |-> IF HasTotalPackageSize(m.doc) THEN kept
                                                 ELSE Append(kept, <<"total_package_size", value>>)],
                            mtime |-> now]]

\* doUpdateManifest(manifestPath, totalPackageSize) on the manifest.json m:
\* whether it threw (a ManifestWritingError), and the file afterwards
doUpdateManifest(m, totalPackageSize, now, writeFails) ==
    IF ~m.doc.parses
    THEN [threw |-> TRUE, manifest |-> m]
    ELSE IF HasTotalPackageSize(m.doc)
         THEN IF writeFails
              THEN [threw |-> TRUE, manifest |-> m]
              ELSE [threw |-> FALSE,
                    manifest |->
                      [exists |-> TRUE,
                       doc |-> [parses |-> TRUE, fmt |-> "pretty",
                                members |-> [i \in 1..Len(m.doc.members) |->
                                   IF m.doc.members[i][1] = "total_package_size"
                                   THEN <<"total_package_size",
                                          padStart(ToString(totalPackageSize))>>
                                   ELSE m.doc.members[i]]],
                       mtime |-> now]]
         ELSE [threw |-> FALSE, manifest |-> m]

(***************************************************************************)
(* getAllFiles: what the walk finds.                                       *)
(***************************************************************************)
\* the package files as a set
PackageEntries == {files[i] : i \in 1..Len(files)}

\* the two documents of the generator, when they are on disk
DocumentEntries ==
    (IF layout.exists
     THEN <<[name |-> Str_layout_json, size |-> LayoutBytes(layout.content),
             mtime |-> layout.mtime]>>
     ELSE <<>>)
    \o (IF manifest.exists
        THEN <<[name |-> Str_manifest_json, size |-> ManifestBytes(manifest.doc),
                mtime |-> manifest.mtime]>>
        ELSE <<>>)

Listings(S) ==
    {o \in [1..Cardinality(S) -> S] : \A i, j \in 1..Cardinality(S) : i # j => o[i] # o[j]}

\* readdir gives the names of a directory in an order of its own, the same from
\* run to run while the tree stays as it is: the walk of this tree (the two
\* documents listed after the package files)
Listed == files \o DocumentEntries

\* the walks of the same tree under every other order of listing
Orders == {p \o DocumentEntries : p \in Listings(PackageEntries)}

\* what may go wrong in one run: nothing; a directory cannot be listed; a
\* package file vanishes before the walk stats it, or after the walk and before
\* the main loop stats it; the write of manifest.json fails
NoFault == [kind |-> "none", name |-> <<>>]
Faults ==
    {NoFault, [kind |-> "readdir", name |-> <<>>], [kind |-> "manifestWrite", name |-> <<>>]}
    \cup {[kind |-> k, name |-> f.name] : k \in {"scanStat", "loopStat"}, f \in PackageEntries}

\* getAllFiles(packageDir): whether it threw a ReadingDirError (readdir failed,
\* or the stat of a listed item did, inside the same try), else the files found
getAllFiles(order, fault) ==
    IF fault.kind \in {"readdir", "scanStat"}
    THEN [threw |-> TRUE, files |-> <<>>]
    ELSE [threw |-> FALSE, files |-> order]

(***************************************************************************)
(* processLayout.                                                          *)
(***************************************************************************)
MsgNoDirectory == "Directory does not exist"
MsgNoManifest == "manifest.json not found"
MsgLayoutExists == "layout.json already exists. Use --force to overwrite."
MsgNoFiles == "No files found in package directory"
MsgNoValidFiles == "No valid files to include in layout.json"
MsgReadDir == "Failed to read directory"
MsgErrorProcessing == "Error processing: "

Options == [force : BOOLEAN, checkManifest : BOOLEAN, skipManifestUpdate : BOOLEAN,
            returnResult : BOOLEAN]

\* the defaults of the destructuring of `options`
DefaultOptions == [force |-> FALSE, checkManifest |-> TRUE, skipManifestUpdate |-> FALSE,
                   returnResult |-> FALSE]

NoResult == [outcome |-> "none", payload |-> FALSE, success |-> FALSE, message |-> "",
             fileCount |-> 0, totalSize |-> 0, skippedFiles |-> 0]

\* the promise resolves with a ProcessResult
Returned(success, message, fileCount, totalSize, skippedFiles) ==
    [outcome |-> "resolved", payload |-> TRUE, success |-> success, message |-> message,
     fileCount |-> fileCount, totalSize |-> totalSize, skippedFiles |-> skippedFiles]

\* the promise resolves with undefined
ReturnedVoid == [NoResult EXCEPT !.outcome = "resolved"]

\* the promise rejects with an Error carrying the message
Thrown(message) == [NoResult EXCEPT !.outcome = "rejected", !.message = message]

\* a plausible slip: the failure is thrown whatever returnResult says
FailThrows(options, message, skippedFiles) == Thrown(message)

\* a plausible slip: without returnResult the failure is logged and the promise
\* resolves
FailQuietly(options, message, skippedFiles) ==
    IF options.returnResult THEN Returned(FALSE, message, 0, 0, skippedFiles)
    ELSE ReturnedVoid

\* `if (returnResult) return {... success: false, message}; throw new Error(message)`
Fail(options, message, skippedFiles) ==
    IF options.returnResult THEN Returned(FALSE, message, 0, 0, skippedFiles)
    ELSE Thrown(message)

\* a plausible slip (the older form of the function did so): without
\* returnResult the catch block logs the error and the promise resolves
CaughtQuietly(options, message, skippedFiles) ==
    IF options.returnResult
    THEN Returned(FALSE, MsgErrorProcessing \o message, 0, 0, skippedFiles)
    ELSE ReturnedVoid

\* the catch block of the main try: a failed result with the wrapped message,
\* or the error thrown again
Caught(options, message, skippedFiles) ==
    IF options.returnResult
    THEN Returned(FALSE, MsgErrorProcessing \o message, 0, 0, skippedFiles)
    ELSE Thrown(message)

\* the state of the disk as one value
Disk == [files |-> files, layout |-> layout, manifest |-> manifest]

\* the package files left when the fault is a file that vanished
Remaining(fault) ==
    IF fault.kind \in {"scanStat", "loopStat"}
    THEN SelectSeq(files, LAMBDA f : f.name # fault.name)
    ELSE files

\* for every name the walk can find: the absolute path, whether it is too
\* long, the relative path with forward slashes and whether it is excluded
\* (lines 161, 169 and 170, which depend on the name alone)
PathInfo ==
    [n \in {f.name : f \in PackageFiles} \cup {Str_layout_json, Str_manifest_json} |->
        [tooLong |-> Len(join(packageDir, n)) > MaxPathLength,
         relativePath |-> relativeOf(join(packageDir, n)),
         isExcluded |-> doExcludeFile(relativeOf(join(packageDir, n)))]]

\* getWindowsFileTime of the mtime of every package file (line 187)
FileTimes == [t \in {f.mtime : f \in PackageFiles} |-> getWindowsFileTime(ToBig(t))]

fileTimeOf(mtime) ==
    IF mtime \in DOMAIN FileTimes THEN FileTimes[mtime]
    ELSE getWindowsFileTime(ToBig(mtime))

\* localeCompare of every two relative paths a walk can list (the comparison
\* of line 223 depends on the two paths alone)
Compared ==
    LET paths == {PathInfo[n].relativePath : n \in DOMAIN PathInfo}
    IN  [a \in paths, b \in paths |-> localeCompare(a, b)]

\* a.path.localeCompare(b.path)
comparePaths(a, b) ==
    IF <<a, b>> \in DOMAIN Compared THEN Compared[a, b] ELSE localeCompare(a, b)

RECURSIVE InsertSorted(_, _)
\* x put into the sorted sequence s after every element that does not compare
\* greater than it
InsertSorted(x, s) ==
    IF s = <<>> THEN <<x>>
    ELSE IF comparePaths(Head(s).path, x.path) <= 0
         THEN <<Head(s)>> \o InsertSorted(x, Tail(s))
         ELSE <<x>> \o s

RECURSIVE SortFrom(_, _)
SortFrom(content, acc) ==
    IF content = <<>> THEN acc
    ELSE SortFrom(Tail(content), InsertSorted(Head(content), acc))

\* a plausible slip: the sort left out
sortContentMissing(content) == content

\* layout.content.sort((a, b) => a.path.localeCompare(b.path)): a stable sort
sortContent(content) == SortFrom(content, <<>>)

\* a plausible slip: the size is added after the exclusion test, so that an
\* excluded file adds nothing
forFileCountsListedOnly(acc, e, statFails) ==
    IF PathInfo[e.name].tooLong
    THEN [acc EXCEPT !.hasLongPath = TRUE]
    ELSE IF e.name = statFails \/ PathInfo[e.name].isExcluded
    THEN [acc EXCEPT !.excludedCount = @ + 1]
    ELSE [acc EXCEPT !.totalPackageSize = @ + e.size,
                     !.content = Append(@, [path |-> PathInfo[e.name].relativePath,
                                            size |-> e.size,
                                            date |-> fileTimeOf(e.mtime)])]

\* a plausible slip: a file beyond the path limit is counted as skipped too
forFileCountsLongPath(acc, e, statFails) ==
    IF PathInfo[e.name].tooLong
    THEN [acc EXCEPT !.hasLongPath = TRUE, !.excludedCount = @ + 1]
    ELSE IF e.name = statFails
    THEN [acc EXCEPT !.excludedCount = @ + 1]
    ELSE IF PathInfo[e.name].isExcluded
    THEN [acc EXCEPT !.totalPackageSize = @ + e.size, !.excludedCount = @ + 1]
    ELSE [acc EXCEPT !.totalPackageSize = @ + e.size,
                     !.content = Append(@, [path |-> PathInfo[e.name].relativePath,
                                            size |-> e.size,
                                            date |-> fileTimeOf(e.mtime)])]

\* one turn of the for loop, for the entry e of allFiles; statFails names the
\* file whose stat rejects
forFile(acc, e, statFails) ==
    IF PathInfo[e.name].tooLong
    THEN [acc EXCEPT !.hasLongPath = TRUE]
    ELSE IF e.name = statFails
    THEN [acc EXCEPT !.excludedCount = @ + 1]
    ELSE IF PathInfo[e.name].isExcluded
    THEN [acc EXCEPT !.totalPackageSize = @ + e.size, !.excludedCount = @ + 1]
    ELSE [acc EXCEPT !.totalPackageSize = @ + e.size,
                     !.content = Append(@, [path |-> PathInfo[e.name].relativePath,
                                            size |-> e.size,
                                            date |-> fileTimeOf(e.mtime)])]

RECURSIVE forEachFile(_, _, _)
\* the for loop over allFiles
forEachFile(allFiles, acc, statFails) ==
    IF allFiles = <<>> THEN acc
    ELSE forEachFile(Tail(allFiles), forFile(acc, Head(allFiles), statFails), statFails)

\* lines 233-260: the update of manifest.json unless skipped or absent, any
\* error of it caught and dropped; then the successful end
updateAndReturn(options, fault, now, excludedCount, written, totalPackageSize) ==
    [result |-> IF options.returnResult
                THEN Returned(TRUE, "", Len(written.layout.content), totalPackageSize,
                              excludedCount)
                ELSE ReturnedVoid,
     disk |-> IF options.skipManifestUpdate \/ ~manifest.exists
              THEN written
              ELSE [written EXCEPT !.manifest =
                       doUpdateManifest(manifest, totalPackageSize, now,
                                        fault.kind = "manifestWrite").manifest]]

\* lines 222-231: sort, write layout.json, add its size to the total
writeLayout(options, fault, now, loop, after, sorted) ==
    updateAndReturn(options, fault, now, loop.excludedCount,
                    [after EXCEPT !.layout = [exists |-> TRUE, content |-> sorted,
                                              mtime |-> now]],
                    loop.totalPackageSize + LayoutBytes(sorted))

\* a plausible slip (the older form of the function did so): layout.json is
\* written before the content is found empty
afterLoopWritesFirst(options, fault, now, after, loop) ==
    IF Len(loop.content) = 0
    THEN [result |-> Fail(options, MsgNoValidFiles, loop.excludedCount),
          disk |-> [after EXCEPT !.layout = [exists |-> TRUE, content |-> <<>>,
                                             mtime |-> now]]]
    ELSE writeLayout(options, fault, now, loop, after, sortContent(loop.content))

\* lines 200-220: the end of the loop
afterLoop(options, fault, now, after, loop) ==
    IF Len(loop.content) = 0
    THEN [result |-> Fail(options, MsgNoValidFiles, loop.excludedCount), disk |-> after]
    ELSE writeLayout(options, fault, now, loop, after, sortContent(loop.content))

\* lines 134-198 and 262-278: the walk and the loop
scanAndBuild(options, fault, now, walk, after) ==
    IF walk.threw
    THEN [result |-> Caught(options, MsgReadDir, 0),
          disk |-> IF fault.kind = "scanStat" THEN after ELSE Disk]
    ELSE IF Len(walk.files) = 0
    THEN [result |-> Fail(options, MsgNoFiles, 0), disk |-> after]
    ELSE afterLoop(options, fault, now, after,
                   forEachFile(walk.files,
                               [totalPackageSize |-> 0, content |-> <<>>,
                                excludedCount |-> 0, hasLongPath |-> FALSE],
                               IF fault.kind = "loopStat" THEN fault.name ELSE <<>>))

\* a plausible slip: an existing layout.json is overwritten without being asked
skipsExistingLayoutNever(options) == FALSE

\* line 102: `if (layoutExists && !force)`
skipsExistingLayout(options) == layout.exists /\ ~options.force

\* processLayout(packageDir, options) from the current disk, the walk finding
\* the files in `order`, with `fault` going wrong, at time `now`: how the
\* promise settles and the disk afterwards
processLayout(options, order, fault, now) ==
    IF ~rootExists
    THEN [result |-> Fail(options, MsgNoDirectory, 0), disk |-> Disk]
    ELSE IF options.checkManifest /\ ~manifest.exists
    THEN [result |-> Fail(options, MsgNoManifest, 0), disk |-> Disk]
    ELSE IF skipsExistingLayout(options)
    THEN [result |-> IF options.returnResult
                     THEN Returned(FALSE, MsgLayoutExists, 0, 0, 0)
                     ELSE ReturnedVoid,
          disk |-> Disk]
    ELSE scanAndBuild(options, fault, now, getAllFiles(order, fault),
                      [Disk EXCEPT !.files = Remaining(fault)])

(***************************************************************************)
(* The entry points.                                                       *)
(***************************************************************************)
\* the time of the run, in ms
Now == 1000 * (clock + 1)

\* the ways one call can end: what goes wrong in the run is the environment's
Outcomes(options) ==
    IF ~rootExists \/ (options.checkManifest /\ ~manifest.exists)
       \/ skipsExistingLayout(options)
    THEN {processLayout(options, <<>>, NoFault, Now)}
    ELSE {processLayout(options, Listed, fault, Now) : fault \in Faults}

Run(entry, options) ==
    /\ \E out \in Outcomes(options) :
        /\ call' = [entry |-> entry, options |-> options]
        /\ result' = out.result
        /\ files' = out.disk.files
        /\ layout' = out.disk.layout
        /\ manifest' = out.disk.manifest
        /\ clock' = clock + 1
        /\ UNCHANGED <<rootExists, probe>>

\* doProcessLayoutFileCli(packageDir, options): returnResult forced to true
doProcessLayoutFileCli(options) ==
    /\ clock < MaxRuns
    /\ Run("doProcessLayoutFileCli", [options EXCEPT !.returnResult = TRUE])
    /\ UNCHANGED watchVars

\* doProcessLayoutFile(layoutPath), exported as generateLayout: the defaults
doProcessLayoutFile ==
    /\ clock < MaxRuns
    /\ Run("doProcessLayoutFile", [DefaultOptions EXCEPT !.returnResult = FALSE])
    /\ UNCHANGED watchVars

\* no walk made on its own
NoWalk == [tree |-> {}, count |-> 0, cause |-> "", build |-> "", unreadable |-> "",
           returnResult |-> FALSE, threw |-> FALSE, name |-> "", message |-> <<>>,
           found |-> 0, outcome |-> "none"]

\* no helper called on its own
NoProbe == [fn |-> "none", segments |-> <<>>, excluded |-> FALSE, ms |-> <<>>,
            ticks |-> <<>>, walk |-> NoWalk]

\* no watch session
WatchOff ==
    /\ session = "off" /\ timers = <<>> /\ handleLive = FALSE
    /\ isProcessing = FALSE /\ inFlight = 0 /\ changeCount = 0
    /\ eventCount = 0 /\ unserved = 0 /\ quiet = 0

Init ==
    /\ WatchOff
    /\ probe = NoProbe
    /\ rootExists \in BOOLEAN
    /\ files \in IF rootExists
                 THEN UNION {Listings(S) : S \in {T \in SUBSET PackageFiles :
                                                      Cardinality(T) <= MaxFiles}}
                 ELSE {<<>>}
    /\ layout \in {NoLayout} \cup (IF rootExists THEN {[NoLayout EXCEPT !.exists = TRUE]} ELSE {})
    /\ manifest \in {NoManifest} \cup (IF rootExists
                                      THEN {[exists |-> TRUE, doc |-> d, mtime |-> 0] :
                                              d \in {Malformed, ManifestPlain, ManifestSized}}
                                      ELSE {})
    /\ call = [entry |-> "none", options |-> DefaultOptions]
    /\ result = NoResult
    /\ clock = 0

Next ==
    \/ \E options \in {o \in Options : o.returnResult} : doProcessLayoutFileCli(options)
    \/ doProcessLayoutFile

Spec == Init /\ [][Next]_vars

(***************************************************************************)
(* The watch session of the CLI (handleWatchMode).                         *)
(***************************************************************************)
\* at most this many qualifying events in one session
MaxEvents == 3

\* the delay of the debounce timer in ms: handleAction passes no watchDebounce,
\* parseInt(undefined) is NaN, and setTimeout takes a delay that is not a
\* number of at least 1 as 1
WatchDebounce == 1

\* the events of the watcher that call processChanges
QualifyingEvents == {"add", "change", "unlink", "addDir", "unlinkDir"}

\* the files that come and go during a session
WatchedFiles == {File_a_txt, File_Thumbs_db}

\* the options of the first run of a session (lines 222-227)
InitialOptions(manifestCheck) ==
    [force |-> TRUE, checkManifest |-> manifestCheck, skipManifestUpdate |-> FALSE,
     returnResult |-> TRUE]

\* the options of a regeneration (lines 266-269): force, and the defaults
RegenerateOptions ==
    [force |-> TRUE, checkManifest |-> TRUE, skipManifestUpdate |-> FALSE,
     returnResult |-> TRUE]

\* clearTimeout(debounceTimer): the timer of the handle, when it is pending
clearTimeout(pending, live) ==
    IF live THEN SubSeq(pending, 1, Len(pending) - 1) ELSE pending

\* a plausible slip: the busy flag is not looked at
processChangesUnguarded ==
    [timers |-> Append(clearTimeout(timers, handleLive), WatchDebounce),
     handleLive |-> TRUE]

\* a plausible slip: the timer before is not cleared
processChangesNoClear ==
    IF isProcessing THEN [timers |-> timers, handleLive |-> handleLive]
    ELSE [timers |-> Append(timers, WatchDebounce), handleLive |-> TRUE]

\* processChanges() up to the setTimeout (lines 253-262): the timers after it
processChanges ==
    IF isProcessing THEN [timers |-> timers, handleLive |-> handleLive]
    ELSE [timers |-> Append(clearTimeout(timers, handleLive), WatchDebounce),
          handleLive |-> TRUE]

\* handleWatchMode up to the creation of the watcher: exit(1) without the
\* directory, else the first run, awaited, whose result is not looked at
StartWatch(manifestCheck) ==
    /\ session = "off"
    /\ IF ~rootExists
       THEN /\ session' = "exited"
            /\ UNCHANGED runVars
       ELSE /\ session' = "watching"
            /\ Run("doProcessLayoutFileCli", InitialOptions(manifestCheck))
    /\ UNCHANGED <<timers, handleLive, isProcessing, inFlight, changeCount, eventCount,
                   unserved, quiet>>

\* the tree after the change that the event reports
TreeAfter(event) ==
    CASE event = "add" ->
           {Append(files, f) : f \in {g \in WatchedFiles : g \notin PackageEntries}}
      [] event = "unlink" ->
           {SelectSeq(files, LAMBDA g : g # f) : f \in PackageEntries}
      [] OTHER -> {files}

\* the watcher delivers a qualifying event: the handler calls processChanges
WatchEvent(event) ==
    /\ session = "watching"
    /\ eventCount < MaxEvents
    /\ files' \in TreeAfter(event)
    /\ timers' = processChanges.timers
    /\ handleLive' = processChanges.handleLive
    /\ eventCount' = eventCount + 1
    /\ unserved' = unserved + 1
    /\ quiet' = 0
    /\ UNCHANGED <<rootExists, layout, manifest, call, result, clock, probe, session,
                   isProcessing, inFlight, changeCount>>

\* one ms passes
Tick ==
    /\ session \in {"watching", "closing"}
    /\ \/ \E i \in 1..Len(timers) : timers[i] > 0
       \/ quiet < WatchDebounce
    /\ timers' = [i \in 1..Len(timers) |-> IF timers[i] > 0 THEN timers[i] - 1 ELSE 0]
    /\ quiet' = IF quiet < WatchDebounce THEN quiet + 1 ELSE quiet
    /\ UNCHANGED <<runVars, session, handleLive, isProcessing, inFlight, changeCount,
                   eventCount, unserved>>

\* a timer that is due runs its callback up to the await (lines 262-266)
TimerFires(i) ==
    /\ session \in {"watching", "closing"}
    /\ i \in 1..Len(timers) /\ timers[i] = 0
    /\ timers' = [j \in 1..(Len(timers) - 1) |-> IF j < i THEN timers[j] ELSE timers[j + 1]]
    /\ handleLive' = (handleLive /\ i # Len(timers))
    /\ isProcessing' = TRUE
    /\ changeCount' = changeCount + 1
    /\ inFlight' = inFlight + 1
    /\ unserved' = 0
    /\ UNCHANGED <<runVars, session, eventCount, quiet>>

\* the regeneration in flight ends (lines 266-281): its result or error is
\* dropped, and `finally` clears the busy flag
RegenerationCompletes ==
    /\ session \in {"watching", "closing"}
    /\ inFlight > 0
    /\ Run("doProcessLayoutFileCli", RegenerateOptions)
    /\ isProcessing' = FALSE
    /\ inFlight' = inFlight - 1
    /\ UNCHANGED <<session, timers, handleLive, changeCount, eventCount, unserved, quiet>>

\* SIGINT (lines 324-330): watcher.close() is called, which removes the
\* listeners at once and resolves later
Interrupt ==
    /\ session = "watching"
    /\ session' = "closing"
    /\ UNCHANGED <<runVars, timers, handleLive, isProcessing, inFlight, changeCount,
                   eventCount, unserved, quiet>>

\* what a run cut short by the end of the process leaves on disk: nothing of
\* it, its layout.json without the update of the manifest, or all of it
CutShort(options) ==
    {Disk} \cup UNION {{out.disk, [out.disk EXCEPT !.manifest = manifest]} :
                         out \in Outcomes(options)}

\* watcher.close() has resolved: process.exit(0) (lines 332-337), whatever
\* is in flight
CloseCompletes ==
    /\ session = "closing"
    /\ session' = "exited"
    /\ IF inFlight > 0
       THEN \E disk \in CutShort(RegenerateOptions) :
               /\ files' = disk.files
               /\ layout' = disk.layout
               /\ manifest' = disk.manifest
               /\ clock' = clock + 1
               /\ UNCHANGED <<rootExists, call, result, probe>>
       ELSE UNCHANGED runVars
    /\ UNCHANGED <<timers, handleLive, isProcessing, inFlight, changeCount, eventCount,
                   unserved, quiet>>

\* a session starts on a package directory as the user has it
InitWatch ==
    /\ WatchOff
    /\ probe = NoProbe
    /\ rootExists \in BOOLEAN
    /\ files \in IF rootExists THEN {<<>>, <<File_a_txt>>} ELSE {<<>>}
    /\ layout = NoLayout
    /\ manifest \in {NoManifest} \cup (IF rootExists
                                      THEN {[exists |-> TRUE, doc |-> ManifestSized,
                                             mtime |-> 0]}
                                      ELSE {})
    /\ call = [entry |-> "none", options |-> DefaultOptions]
    /\ result = NoResult
    /\ clock = 0

NextWatch ==
    \/ \E manifestCheck \in BOOLEAN : StartWatch(manifestCheck)
    \/ \E event \in QualifyingEvents : WatchEvent(event)
    \/ Tick
    \/ \E i \in 1..Len(timers) : TimerFires(i)
    \/ RegenerationCompletes
    \/ Interrupt
    \/ CloseCompletes

SpecWatch == InitWatch /\ [][NextWatch]_vars

(***************************************************************************)
(* The helpers called on their own.                                        *)
(***************************************************************************)
\* at most this many segments in a relative path
MaxSegments == 3

\* names of directories and files: "_cvt_", "_CVT_", "_cvt_x", "sub",
\* "a.txt", "Thumbs.db", "layout.json"
Seg_cvt == <<95, 99, 118, 116, 95>>
Seg_CVT == <<95, 67, 86, 84, 95>>
Seg_cvt_x == <<95, 99, 118, 116, 95, 120>>
Seg_sub == <<115, 117, 98>>
PathSegments ==
    {Seg_cvt, Seg_CVT, Seg_cvt_x, Seg_sub, File_a_txt.name, File_Thumbs_db.name,
     Str_layout_json}

RECURSIVE JoinSegments(_)
\* the segments joined with '/' (line 169 of processLayout.ts)
JoinSegments(segs) ==
    IF Len(segs) = 1 THEN segs[1]
    ELSE segs[1] \o <<Slash>> \o JoinSegments(Tail(segs))

\* the relative paths of at most MaxSegments segments
SegmentLists == UNION {[1..n -> PathSegments] : n \in 1..MaxSegments}

\* the state in which the helpers are called: no package, no session
Blank ==
    /\ WatchOff
    /\ rootExists = FALSE /\ files = <<>> /\ layout = NoLayout /\ manifest = NoManifest
    /\ call = [entry |-> "none", options |-> DefaultOptions]
    /\ result = NoResult /\ clock = 0

\* doExcludeFile(relativePath) is called
CallDoExcludeFile(segs) ==
    /\ probe.fn = "none"
    /\ probe' = [NoProbe EXCEPT !.fn = "doExcludeFile", !.segments = segs,
                                !.excluded = doExcludeFile(JoinSegments(segs))]
    /\ UNCHANGED <<rootExists, files, layout, manifest, call, result, clock, watchVars>>

InitExclude == Blank /\ probe = NoProbe

NextExclude == \E segs \in SegmentLists : CallDoExcludeFile(segs)

SpecExclude == InitExclude /\ [][NextExclude]_vars

\* an instant is one of the base instants plus at most this many ms
MaxOffset == 24

\* getTime() of 1970-01-01T00:00:00Z, 1970-01-02, 2023-11-14T22:13:20Z,
\* 2057-09-06T23:40:07.580Z and 2100-01-01: 0, 86400000, 1700000000000,
\* 2767045207580 and 4102444800000 ms
BaseInstants ==
    {<<0>>, <<0, 8640>>, <<0, 0, 7000, 1>>, <<7580, 4520, 7670, 2>>, <<0, 4480, 1024, 4>>}

Instants == {BigNorm(BigAdd(b, <<d>>, 0)) : b \in BaseInstants, d \in 0..MaxOffset}

\* getWindowsFileTime(date) is called, date.getTime() being ms
CallGetWindowsFileTime(ms) ==
    /\ probe.fn = "none"
    /\ probe' = [NoProbe EXCEPT !.fn = "getWindowsFileTime", !.ms = ms,
                                !.ticks = getWindowsFileTime(ms)]
    /\ UNCHANGED <<rootExists, files, layout, manifest, call, result, clock, watchVars>>

InitTime == Blank /\ probe = NoProbe

NextTime == \E ms \in Instants : CallGetWindowsFileTime(ms)

SpecTime == InitTime /\ [][NextTime]_vars

(***************************************************************************)
(* getAllFiles on its own: the walk of a small tree of directories of      *)
(* which one may refuse to be listed, and what processLayout hands to its  *)
(* caller when the walk fails.                                             *)
(***************************************************************************)
\* every directory holds up to this many files
MaxFilesPerDir == 2

DirRoot == "C:\\pkg"
DirSub == "C:\\pkg\\sub"
DirInner == "C:\\pkg\\sub\\inner"
DirOther == "C:\\pkg\\other"

\* the trees: the directories there are under the root
Trees ==
    {{DirRoot}, {DirRoot, DirSub}, {DirRoot, DirOther}, {DirRoot, DirSub, DirInner},
     {DirRoot, DirSub, DirOther}, {DirRoot, DirSub, DirInner, DirOther}}

\* the directories readdir lists in a directory, in its order
SubDirs(tree, dir) ==
    SelectSeq(IF dir = DirRoot THEN <<DirSub, DirOther>>
              ELSE IF dir = DirSub THEN <<DirInner>>
              ELSE <<>>,
              LAMBDA d : d \in tree)

\* why the system refuses to list a directory
Causes == {"EACCES: permission denied", "EMFILE: too many open files"}

\* the message of the error fs.promises.readdir rejects with
ReaddirError(cause, dir) == <<cause, ", scandir '", dir, "'">>

\* the module formats the code can be built to: `path`, the binding of
\* `import * as path`, is a plain object in one and a module namespace object
\* (without toString or valueOf) in the other
Builds == {"commonjs", "esm"}

\* the inputs of one walk
Walks ==
    {[tree |-> t, count |-> n, unreadable |-> u, cause |-> c, build |-> b] :
        t \in Trees, n \in 0..MaxFilesPerDir,
        u \in {DirRoot, DirSub, DirInner, DirOther, ""}, c \in Causes, b \in Builds}

\* the catch block of readDirectory (lines 19-24) on the error e: the template
\* literal interpolates `path`, the module, where the directory is currentPath
ReadingDirError(w, e) ==
    IF w.build = "esm"
    THEN [threw |-> TRUE, name |-> "TypeError",
          message |-> <<"Cannot convert object to primitive value">>, found |-> 0]
    ELSE [threw |-> TRUE, name |-> "ReadingDirError",
          message |-> <<"Failed to read directory ", "[object Object]", ": ">>
                      \o e.message \o <<".">>,
          found |-> 0]

RECURSIVE readDirectory(_, _)
RECURSIVE readSubDirs(_, _, _)
\* the for loop of readDirectory over the directories among the items, the
\* first failure ending it
readSubDirs(w, dirs, found) ==
    IF dirs = <<>> THEN [threw |-> FALSE, name |-> "", message |-> <<>>, found |-> found]
    ELSE LET inner == readDirectory(w, Head(dirs))
         IN  IF inner.threw THEN inner
             ELSE readSubDirs(w, Tail(dirs), found + inner.found)

\* readDirectory(currentPath): whether it threw, and what, else how many files
\* it pushed
readDirectory(w, currentPath) ==
    IF currentPath = w.unreadable
    THEN ReadingDirError(w, [name |-> "Error",
                             message |-> ReaddirError(w.cause, currentPath)])
    ELSE LET rest == readSubDirs(w, SubDirs(w.tree, currentPath), w.count)
         IN  IF rest.threw THEN ReadingDirError(w, rest) ELSE rest

\* processLayout around the walk: its catch block (lines 262-278) returns a
\* failed result with the message wrapped, or throws the error again
walkAndReport(w, returnResult) ==
    LET walk == readDirectory(w, DirRoot)
    IN  [tree |-> w.tree, count |-> w.count, cause |-> w.cause, build |-> w.build,
         unreadable |-> IF w.unreadable \in w.tree THEN w.unreadable ELSE "",
         returnResult |-> returnResult,
         threw |-> walk.threw,
         name |-> walk.name,
         message |-> IF walk.threw /\ returnResult
                     THEN <<"Error processing ", DirRoot, ": ">> \o walk.message
                     ELSE walk.message,
         found |-> walk.found,
         outcome |-> IF ~walk.threw THEN "walked"
                     ELSE IF returnResult THEN "resolved" ELSE "rejected"]

CallGetAllFiles(w, returnResult) ==
    /\ probe.fn = "none"
    /\ probe' = [NoProbe EXCEPT !.fn = "getAllFiles", !.walk = walkAndReport(w, returnResult)]
    /\ UNCHANGED <<rootExists, files, layout, manifest, call, result, clock, watchVars>>

InitWalk == Blank /\ probe = NoProbe

NextWalk == \E w \in Walks, returnResult \in BOOLEAN : CallGetAllFiles(w, returnResult)

SpecWalk == InitWalk /\ [][NextWalk]_vars

(***************************************************************************)
(* What the claims speak of.                                               *)
(***************************************************************************)
Structured == "doProcessLayoutFileCli"
FireAndForget == "doProcessLayoutFile"

\* the last run wrote layout.json
WroteLayout == clock > 0 /\ layout.exists /\ layout.mtime = 1000 * clock

\* the last run wrote manifest.json
WroteManifest == clock > 0 /\ manifest.exists /\ manifest.mtime = 1000 * clock

\* the promise of the last call resolved with a failed ProcessResult that says why
FailedResult ==
    /\ result.outcome = "resolved" /\ result.payload
    /\ ~result.success /\ result.message # ""

\* the file is within the path limit of line 161
WithinLimit(f) == Len(packageDir) + 1 + Len(f.name) <= MaxPathLength

\* the file is one the layout lists: within the limit and not excluded
Valid(f) == WithinLimit(f) /\ ~PathInfo[f.name].isExcluded

RECURSIVE SumSizes(_)
SumSizes(fs) ==
    IF fs = <<>> THEN 0
    ELSE (IF WithinLimit(Head(fs)) THEN Head(fs).size ELSE 0) + SumSizes(Tail(fs))

(***************************************************************************)
(* C1: when layout.json exists and force is false, the structured entry    *)
(* point resolves to a failed result with a message (the one about the     *)
(* existing layout.json, when the run gets as far as that check) and the   *)
(* disk after the call is the disk before it.                              *)
(***************************************************************************)
C1_ExistingLayoutSkip ==
    [][(call'.entry = Structured /\ layout.exists /\ ~call'.options.force)
        => /\ FailedResult'
           /\ (call'.options.checkManifest => manifest.exists)
                 => result'.message = MsgLayoutExists
           /\ layout' = layout /\ manifest' = manifest /\ files' = files]_vars

\* a structured call without force has just met an existing layout.json
C1_Witness ==
    /\ call.entry = Structured /\ ~call.options.force
    /\ layout.exists /\ ~WroteLayout
    /\ FailedResult /\ result.message = MsgLayoutExists

(***************************************************************************)
(* C2: in a layout.json a run has written, the paths of the content        *)
(* entries ascend strictly under the ordinal comparison of strings (code   *)
(* unit by code unit), so that no two entries share a path either.         *)
(***************************************************************************)
C2_OrdinalOrder ==
    WroteLayout =>
        \A i, j \in 1..Len(layout.content) :
            i < j => OrdinalCompare(layout.content[i].path, layout.content[j].path) < 0

Regenerate == [force |-> TRUE, checkManifest |-> FALSE, skipManifestUpdate |-> TRUE,
               returnResult |-> TRUE]

(***************************************************************************)
(* C4: the content a run has written is the content a run of the same tree *)
(* writes under every other order in which the walk can list the files.    *)
(***************************************************************************)
C4_Determinism ==
    WroteLayout =>
        \A order \in Orders :
            processLayout(Regenerate, order, NoFault, Now).disk.layout.content
                = layout.content

(***************************************************************************)
(* C5: after a successful run, totalSize is the sum of the sizes of the    *)
(* files the walk found whose absolute path has at most 259 characters     *)
(* (the excluded ones, the layout.json and the manifest.json of before the *)
(* run among them) plus the bytes of the layout.json just written.         *)
(***************************************************************************)
C5_SizeConservation ==
    [][(call'.entry = Structured /\ result'.success)
        => result'.totalSize =
              SumSizes(files')
              + (IF layout.exists THEN LayoutBytes(layout.content) ELSE 0)
              + (IF manifest.exists THEN ManifestBytes(manifest.doc) ELSE 0)
              + LayoutBytes(layout'.content)]_vars

\* a successful run over a tree with a file beyond the limit, a file the layout
\* lists and an excluded one (manifest.json)
C5_Witness ==
    /\ call.entry = Structured /\ result.success /\ WroteLayout
    /\ manifest.exists
    /\ \E i \in 1..Len(files) : ~WithinLimit(files[i])
    /\ result.skippedFiles > 0
    /\ result.totalSize > SumSizes(files) + LayoutBytes(layout.content)

\* no package file is one the layout lists
NoValidFile == \A i \in 1..Len(files) : ~Valid(files[i])

\* the failures a caller is to expect of a run with these options, as the disk
\* before the run decides them: the root is missing; manifest.json is missing
\* and required; layout.json exists and force is off; the walk finds nothing,
\* or nothing the layout lists
RootMissing == ~rootExists
ManifestMissing(options) == rootExists /\ options.checkManifest /\ ~manifest.exists
LayoutInTheWay(options) == layout.exists /\ ~options.force
NothingToList == rootExists /\ NoValidFile
ExpectedFailure(options) ==
    RootMissing \/ ManifestMissing(options) \/ LayoutInTheWay(options) \/ NothingToList

ValidationMessages ==
    {MsgNoDirectory, MsgNoManifest, MsgLayoutExists, MsgNoFiles, MsgNoValidFiles}

(***************************************************************************)
(* C6: the promise of the structured entry point never rejects: it         *)
(* resolves to a ProcessResult, which in every expected failure (a         *)
(* directory that cannot be read among them) has success false and a       *)
(* message that is not empty.                                              *)
(***************************************************************************)
C6_StructuredNeverThrows ==
    [][call'.entry = Structured
        => /\ result'.outcome = "resolved" /\ result'.payload
           /\ result'.success \/ result'.message # ""
           /\ ExpectedFailure(call'.options) => FailedResult'
           /\ result'.success => WroteLayout']_vars

\* the walk of a structured run has failed to read the directory
C6_Witness ==
    /\ call.entry = Structured /\ FailedResult
    /\ result.message = MsgErrorProcessing \o MsgReadDir

(***************************************************************************)
(* C7: the promise of the fire-and-forget entry point rejects with an      *)
(* error when the directory is missing, when manifest.json is absent, and  *)
(* when a run that gets to the walk finds no file or none the layout       *)
(* lists; when it resolves it carries no payload and the run has not       *)
(* failed: it wrote layout.json, or left an existing one alone.            *)
(***************************************************************************)
C7_FireAndForgetRejects ==
    [][call'.entry = FireAndForget
        => /\ (RootMissing \/ ManifestMissing(DefaultOptions)
                \/ (NothingToList /\ ~LayoutInTheWay(DefaultOptions)))
                 => (result'.outcome = "rejected" /\ result'.message # "")
           /\ result'.outcome = "resolved"
                 => /\ ~result'.payload
                    /\ \/ WroteLayout'
                       \/ (layout.exists /\ layout' = layout /\ manifest' = manifest)]_vars

\* a fire-and-forget run has rejected for want of a file to list
C7_Witness ==
    /\ call.entry = FireAndForget /\ result.outcome = "rejected"
    /\ result.message = MsgNoValidFiles /\ rootExists /\ manifest.exists

(***************************************************************************)
(* C8: a run that ends on a validation failure (the root missing, the      *)
(* manifest.json missing and required, layout.json there without force, no *)
(* file found, no file to list) has written neither layout.json nor        *)
(* manifest.json.                                                          *)
(***************************************************************************)
C8_ValidationWritesNothing ==
    [][(result'.message \in ValidationMessages \/ ExpectedFailure(call'.options))
        => (layout' = layout /\ manifest' = manifest)]_vars

\* a run over files of which none can be listed has ended without a layout.json
C8_Witness ==
    /\ clock > 0 /\ result.message = MsgNoValidFiles
    /\ Len(files) > 0 /\ NoValidFile /\ ~layout.exists

\* the last call ended as a success: a result that says so, or no payload
PlainSuccess == result.outcome = "resolved" /\ (result.payload => result.success)

(***************************************************************************)
(* C9: with skipManifestUpdate off, a run that gets to the update of the   *)
(* manifest ends as a success when manifest.json is absent, and does not   *)
(* end as a plain success when manifest.json is there and does not parse.  *)
(***************************************************************************)
C9_MalformedManifestSurfaces ==
    (WroteLayout /\ ~call.options.skipManifestUpdate)
        => /\ ~manifest.exists => PlainSuccess
           /\ (manifest.exists /\ ~manifest.doc.parses) => ~PlainSuccess

\* the members of a manifest other than total_package_size
OtherMembers(doc) == SelectSeq(doc.members, LAMBDA m : m[1] # "total_package_size")

(***************************************************************************)
(* C10: when a structured run updates a manifest.json that parses: without *)
(* a total_package_size key the file stays as it is; with the key, either  *)
(* the write fails and the file stays as it is, or the document keeps its  *)
(* keys in place, the value of total_package_size is the decimal totalSize *)
(* padded with zeros on the left to 20 characters, and every other member  *)
(* keeps its value.                                                        *)
(***************************************************************************)
C10_ManifestUpdater ==
    [][(call'.entry = Structured /\ result'.success /\ ~call'.options.skipManifestUpdate
        /\ manifest.exists /\ manifest.doc.parses)
        => IF ~HasTotalPackageSize(manifest.doc)
           THEN manifest' = manifest
           ELSE \/ manifest' = manifest
                \/ /\ manifest'.doc.parses
                   /\ Len(manifest'.doc.members) = Len(manifest.doc.members)
                   /\ \A i \in 1..Len(manifest.doc.members) :
                         /\ manifest'.doc.members[i][1] = manifest.doc.members[i][1]
                         /\ IF manifest.doc.members[i][1] = "total_package_size"
                            THEN /\ Len(manifest'.doc.members[i][2]) = PadWidth
                                 /\ \E k \in 0..PadWidth :
                                       manifest'.doc.members[i][2]
                                         = ZeroFill[k] \o ToString(result'.totalSize)
                            ELSE manifest'.doc.members[i] = manifest.doc.members[i]]_vars

\* a structured run has rewritten a manifest.json that has the key and another
C10_Witness ==
    /\ call.entry = Structured /\ result.success /\ WroteManifest
    /\ HasTotalPackageSize(manifest.doc) /\ OtherMembers(manifest.doc) # <<>>
    /\ \E i \in 1..Len(manifest.doc.members) :
          /\ manifest.doc.members[i][1] = "total_package_size"
          /\ Len(manifest.doc.members[i][2]) = PadWidth
          /\ manifest.doc.members[i][2] # "0"

\* the step delivers a qualifying event
EventStep == eventCount' = eventCount + 1

\* the step starts a regeneration
RegenerationStarts == changeCount' # changeCount

(***************************************************************************)
(* C11: in every state of a watch session at most one regeneration is in   *)
(* flight.                                                                 *)
(***************************************************************************)
C11_OneRegenerationInFlight == inFlight <= 1 /\ (inFlight = 1 <=> isProcessing)

\* a qualifying event has arrived while a regeneration is in flight
C11_Witness == inFlight = 1 /\ isProcessing /\ unserved > 0 /\ session = "watching"

(***************************************************************************)
(* C12: a qualifying event that arrives while no regeneration is in flight *)
(* leaves exactly one timer pending, with the whole window to run; a       *)
(* regeneration starts only when at least one event is unserved and the    *)
(* window has passed since the last event, it is one regeneration, and it  *)
(* leaves no timer pending: a burst gets exactly one regeneration.         *)
(***************************************************************************)
C12_DebounceCoalescing ==
    [][/\ (EventStep /\ ~isProcessing) => timers' = <<WatchDebounce>>
       /\ RegenerationStarts
            => /\ changeCount' = changeCount + 1
               /\ unserved >= 1 /\ quiet >= WatchDebounce
               /\ timers' = <<>>]_vars

\* a burst of two events or more has got its one regeneration
C12_Witness ==
    /\ eventCount >= 2 /\ changeCount = 1 /\ unserved = 0
    /\ isProcessing /\ timers = <<>> /\ session = "watching"

(***************************************************************************)
(* C13: a qualifying event that arrives while a regeneration is in flight  *)
(* sets the debounce timer, so that a timer is pending after it.           *)
(***************************************************************************)
C13_EventInFlightKept ==
    [][(EventStep /\ isProcessing) => timers' # <<>>]_vars

(***************************************************************************)
(* C14: once the interrupt has been received no regeneration starts.       *)
(***************************************************************************)
C14_NoRegenerationAfterInterrupt ==
    [][(session \in {"closing", "exited"}) => (changeCount' = changeCount)]_vars

(***************************************************************************)
(* C15: the session does not end the process while the busy flag is set.   *)
(***************************************************************************)
C15_NoExitWhileBusy == session = "exited" => ~isProcessing

\* the rule as stated: the first segment is _cvt_ whatever the case, or else the
\* lower-cased last segment is in the exclusion set
StatedExclusion(segs) ==
    \/ toLowerCase(segs[1]) = Seg_cvt
    \/ toLowerCase(segs[Len(segs)]) \in excludedFiles

(***************************************************************************)
(* C16: doExcludeFile excludes a forward-slash relative path exactly when  *)
(* its first segment is _cvt_ compared without regard to case (a path of   *)
(* that one segment included) or its lower-cased last segment is in the    *)
(* exclusion set.                                                          *)
(***************************************************************************)
C16_ExclusionRule ==
    probe.fn = "doExcludeFile" => (probe.excluded <=> StatedExclusion(probe.segments))

\* (ms + 11644473600000) * 10000 in the integers
StatedTicks(ms) == BigNorm(BigMulSmall(BigAdd(ms, <<0, 7360, 6444, 11>>, 0), 10000, 0))

\* 2767045207586 ms, 2057-09-06T23:40:07.586Z: the first instant whose tick
\* count needs more than the 53 bits of a double
PrecisionLimitMs == <<7586, 4520, 7670, 2>>

OnlyManifest == rootExists /\ files = <<>> /\ ~layout.exists /\ manifest.exists

(***************************************************************************)
(* C18: a run on a root that holds manifest.json and nothing else (no      *)
(* other file, no layout.json) ends with success false and the message     *)
(* that no file was found (a directory that cannot be read set aside); it  *)
(* does not end with the message that no file is valid, nor succeed.       *)
(***************************************************************************)
C18_OnlyManifestNoFilesFound ==
    [][(call'.entry = Structured /\ OnlyManifest)
        => /\ FailedResult'
           /\ result'.message \in {MsgNoFiles, MsgErrorProcessing \o MsgReadDir}]_vars

\* a first run (no layout.json yet) of the structured entry point that has
\* succeeded and rewritten a manifest.json that had the total_package_size key
FirstRunUpdatesManifest ==
    /\ call'.entry = Structured /\ ~layout.exists
    /\ manifest.exists /\ manifest.doc.parses /\ HasTotalPackageSize(manifest.doc)
    /\ result'.success /\ WroteManifest'

\* the value manifest.json has under total_package_size
TotalPackageSizeOf(doc) ==
    LET i == CHOOSE i \in 1..Len(doc.members) : doc.members[i][1] = "total_package_size"
    IN  doc.members[i][2]

(***************************************************************************)
(* C19: on a successful first run over a root that holds manifest.json     *)
(* (with a total_package_size key) and package files, totalSize is the sum *)
(* of the sizes of the package files (the excluded housekeeping files      *)
(* among them, the bytes of manifest.json itself not) plus the bytes of    *)
(* the layout.json written, and the total_package_size written to          *)
(* manifest.json is that totalSize padded with zeros to 20 digits.         *)
(***************************************************************************)
C19_FirstRunTotals ==
    [][FirstRunUpdatesManifest
        => /\ result'.totalSize = SumSizes(files') + LayoutBytes(layout'.content)
           /\ TotalPackageSizeOf(manifest'.doc) = padStart(ToString(result'.totalSize))]_vars

\* the two forms on the disk as it is, with the same thing going wrong: the
\* structured one with the default options, and the fire-and-forget one
StructuredDefault(fault) ==
    processLayout([DefaultOptions EXCEPT !.returnResult = TRUE], Listed, fault, Now)
FireAndForgetDefault(fault) ==
    processLayout([DefaultOptions EXCEPT !.returnResult = FALSE], Listed, fault, Now)

(***************************************************************************)
(* C20: on every state of the directory, and whatever goes wrong in the    *)
(* run, the fire-and-forget form and the structured form with the default  *)
(* options leave the same files, layout.json and manifest.json on disk;    *)
(* the structured form resolves, and the fire-and-forget form rejects      *)
(* exactly when the structured form resolves to a failed result other than *)
(* the skip of an existing layout.json, with the error that result         *)
(* reports; when it resolves, it resolves to nothing.                      *)
(***************************************************************************)
C20_FormsAgree ==
    \A fault \in Faults :
        LET s == StructuredDefault(fault)
            f == FireAndForgetDefault(fault)
        IN  /\ s.disk = f.disk
            /\ s.result.outcome = "resolved" /\ s.result.payload
            /\ f.result.outcome = "rejected"
                  <=> (~s.result.success /\ s.result.message # MsgLayoutExists)
            /\ f.result.outcome = "rejected"
                  => s.result.message \in {f.result.message,
                                           MsgErrorProcessing \o f.result.message}
            /\ f.result.outcome = "resolved" => f.result = ReturnedVoid

\* a fire-and-forget run has rejected on a directory it could not read, where
\* the structured form returns the failed result of its catch block
C20_Witness ==
    /\ call.entry = FireAndForget /\ result = Thrown(MsgReadDir)
    /\ \E fault \in Faults :
          /\ FireAndForgetDefault(fault).result = result
          /\ StructuredDefault(fault).result.message = MsgErrorProcessing \o MsgReadDir

\* the files of fs the layout does not list for being excluded
RECURSIVE ExcludedCount(_)
ExcludedCount(fs) ==
    IF fs = <<>> THEN 0
    ELSE (IF WithinLimit(Head(fs)) /\ ~Valid(Head(fs)) THEN 1 ELSE 0)
         + ExcludedCount(Tail(fs))

\* a package file within the path limit vanished in the course of the step: a
\* stat of it failed
StatFailed ==
    /\ Len(files') < Len(files)
    /\ \E i \in 1..Len(files) :
          /\ WithinLimit(files[i])
          /\ files' = SelectSeq(files, LAMBDA f : f # files[i])

(***************************************************************************)
(* C21: the failure of the stat of one file (a file removed between the    *)
(* listing of its directory and the stat made on it) never aborts the run: *)
(* the run does not end on a directory-read error; when it succeeds the    *)
(* file is counted in skippedFiles, has no entry in the content and adds   *)
(* nothing to totalSize, and the files that remain are processed.          *)
(***************************************************************************)
C21_StatFailureSkips ==
    [][(call'.entry = Structured /\ StatFailed)
        => /\ result'.message # MsgErrorProcessing \o MsgReadDir
           /\ result'.success
                 => /\ result'.skippedFiles = ExcludedCount(files' \o DocumentEntries) + 1
                    /\ result'.fileCount
                          = Len(SelectSeq(files', LAMBDA f : Valid(f)))
                    /\ result'.totalSize
                          = SumSizes(files' \o DocumentEntries)
                            + LayoutBytes(layout'.content)]_vars

\* the text of the message, part by part, names the directory
Names(message, dir) == \E i \in 1..Len(message) : message[i] = dir

(***************************************************************************)
(* C22: when a directory along the walk cannot be listed, the run fails    *)
(* with a directory-read error, and the error, and the message handed to   *)
(* the caller, names the path of the directory that could not be listed.   *)
(***************************************************************************)
C22_ReadErrorNamesDirectory ==
    (probe.fn = "getAllFiles" /\ probe.walk.unreadable # "")
        => /\ probe.walk.threw
           /\ probe.walk.name = "ReadingDirError"
           /\ Names(probe.walk.message, probe.walk.unreadable)

\* the files of fs beyond the path limit
LongPaths(fs) == SelectSeq(fs, LAMBDA f : ~WithinLimit(f))

\* the documents of the generator that the walk finds with the package files
WalkedDocuments ==
    (IF layout.exists THEN <<[name |-> Str_layout_json]>> ELSE <<>>)
    \o (IF manifest.exists THEN <<[name |-> Str_manifest_json]>> ELSE <<>>)

\* the run of the step got through the loop over the files the walk found
FinishedLoop == result'.success \/ result'.message = MsgNoValidFiles

(***************************************************************************)
(* C23: in every run that finishes the loop over the files, each file the  *)
(* walk found is counted once: their number is the number of content       *)
(* entries plus skippedFiles plus the number of files skipped for a path   *)
(* beyond 259 characters; skippedFiles counts the excluded files and the   *)
(* ones whose stat failed, and never a file beyond the limit.              *)
(***************************************************************************)
C23_FileAccounting ==
    [][(call'.entry = Structured /\ FinishedLoop)
        => /\ Len(files) + Len(WalkedDocuments)
                 = result'.fileCount + result'.skippedFiles + Len(LongPaths(files))
           /\ result'.success => result'.fileCount = Len(layout'.content)
           /\ result'.skippedFiles
                 = ExcludedCount(files') + ExcludedCount(WalkedDocuments)
                   + (IF StatFailed THEN 1 ELSE 0)]_vars

\* a run has walked four files: it lists one, leaves one out for its path beyond
\* the limit, and counts the two others (the old layout.json and manifest.json)
\* as skipped
C23_Witness ==
    /\ call.entry = Structured /\ result.success
    /\ result.fileCount = 1 /\ result.skippedFiles = 2
    /\ LongPaths(files) # <<>> /\ Len(files) = 2

\* a successful forced run of the structured entry point follows another, the
\* package files the same before and after it
ForcedRunRepeats ==
    /\ call.entry = Structured /\ call.options.force /\ result.success
    /\ call'.entry = Structured /\ call'.options.force /\ result'.success
    /\ call'.options = call.options
    /\ files' = files

(***************************************************************************)
(* C24: of successive successful forced runs over package files that do    *)
(* not change, each reports the totalSize of the one before and leaves the *)
(* manifest.json the one before left (the same total_package_size): the    *)
(* layout.json of the earlier run is not counted on top of the new one.    *)
(***************************************************************************)
C24_RepeatedRunsSameTotal ==
    [][ForcedRunRepeats
        => /\ result'.totalSize = result.totalSize
           /\ manifest'.doc = manifest.doc]_vars

\* the step ends a regeneration of the watcher
RegenerationEnds == session \in {"watching", "closing"} /\ inFlight' < inFlight

(***************************************************************************)
(* C25: every regeneration the watcher starts runs with the checkManifest  *)
(* of the run before it in the session, and so of the initial forced run;  *)
(* on a root without manifest.json, when the run before did not fail for   *)
(* the missing manifest.json, the regeneration does not either.            *)
(***************************************************************************)
C25_RegenerationKeepsManifestCheck ==
    [][RegenerationEnds
        => /\ call'.options.checkManifest = call.options.checkManifest
           /\ (~manifest.exists /\ result.message # MsgNoManifest)
                 => result'.message # MsgNoManifest]_vars

====
